---------------------------- MODULE Spec2Model ----------------------------
(***************************************************************************)
(* A model of the waifu query-and-fetch pipeline:                          *)
(*   src/src/api/mod.rs       reformat_search_tags                         *)
(*   src/src/api/danbooru.rs  grab_random_image, evaluate_arguments,       *)
(*                            fetch_api_data, parse_u32, parse_opt_u32     *)
(*   src/src/api/safebooru.rs grab_random_image, fetch_api_data, parse_u32 *)
(*   src/src/app.rs           show_random_image, show_image_with_url       *)
(*                                                                         *)
(* Strings are sequences of one-character strings, so that trimming,       *)
(* prefix tests and replacement are computed character by character.       *)
(* The network, the file system, the decoder and the renderer are the      *)
(* environment: each of their answers is a nondeterministic choice.        *)
(***************************************************************************)
EXTENDS Integers, Sequences, FiniteSets, TLC

VARIABLES
    pc,           \* position of the single thread in the program
    cmd,          \* the subcommand: "dan", "safe" or "url"
    details,      \* args.details
    status,       \* fetch_api_data: response.status()
    text,         \* fetch_api_data: response.text()
    parsed,       \* history: the JSON parsers the body was handed to, in order
    data,         \* grab_random_image: the normalized records
    image_url,    \* the URL handed to show_image_with_url
    attempts,     \* show_image_with_url: the loop counter
    last_err,     \* show_image_with_url: last transport error text
    resp,         \* the response received by the current attempt
    body,         \* what resp.bytes() returned, NotRead while it was not called
    bytes,        \* the value the retry loop broke with
    gets,         \* history: number of image GETs issued
    sleeps,       \* history: the sleeps taken, in milliseconds
    diagFile,     \* content of <temp_dir>/waifu_fetch_error.bin
    dump,         \* history: how the last dump to that file went
    outcome,      \* how the run ended
    stages,       \* history: the pipeline stages passed, in order
    tags,         \* reformat_search_tags: the argument
    search_tags,  \* reformat_search_tags: the result
    renormalized, \* reformat_search_tags: the result for that result
    args,         \* danbooru evaluate_arguments: the parsed command line
    env,          \* the process environment read by check_env_variables
    request_url,  \* danbooru evaluate_arguments: the URL returned
    variants,     \* two JSON members holding one field of a record
    ids,          \* parse_u32 of each of the variants
    pixiv_ids     \* parse_opt_u32 of each of the variants

vars == <<pc, cmd, details, status, text, parsed, data, image_url, attempts,
          last_err, resp, body, bytes, gets, sleeps, diagFile, dump,
          outcome, stages, tags, search_tags, renormalized, args, env,
          request_url, variants, ids, pixiv_ids>>

apiVars == <<status, text, parsed, data>>
fetchVars ==
    <<attempts, last_err, resp, body, bytes, gets, sleeps, diagFile, dump>>
tagVars == <<tags, search_tags, renormalized>>
queryVars == <<args, env, request_url>>
coerceVars == <<variants, ids, pixiv_ids>>

-----------------------------------------------------------------------------
(* Strings *)

\* str::starts_with
StartsWith(s, p) == Len(s) >= Len(p) /\ SubSeq(s, 1, Len(p)) = p

\* char::is_whitespace, the class \s of the regex crate (Unicode White_Space);
\* the model's alphabet holds the space, the tab and the line feed of it.
IsWhitespace(c) == c \in {" ", "\t", "\n"}

RECURSIVE TrimStart(_)
\* str::trim_start
TrimStart(s) ==
    IF s # <<>> /\ IsWhitespace(Head(s)) THEN TrimStart(Tail(s)) ELSE s

RECURSIVE TrimEnd(_)
\* str::trim_end
TrimEnd(s) ==
    IF s # <<>> /\ IsWhitespace(s[Len(s)])
    THEN TrimEnd(SubSeq(s, 1, Len(s) - 1)) ELSE s

\* str::trim
Trim(s) == TrimEnd(TrimStart(s))

RECURSIVE Digits(_)
\* the decimal text of a natural number (Display for integers)
Digits(n) ==
    IF n < 10 THEN <<ToString(n)>>
    ELSE Append(Digits(n \div 10), ToString(n % 10))

DigitValue(c) ==
    CASE c = "0" -> 0 [] c = "1" -> 1 [] c = "2" -> 2 [] c = "3" -> 3
      [] c = "4" -> 4 [] c = "5" -> 5 [] c = "6" -> 6 [] c = "7" -> 7
      [] c = "8" -> 8 [] c = "9" -> 9

IsDigit(c) == c \in {"0", "1", "2", "3", "4", "5", "6", "7", "8", "9"}


RECURSIVE DecimalValue(_)
\* the number a sequence of decimal digits denotes
DecimalValue(d) ==
    IF d = <<>> THEN 0
    ELSE 10 * DecimalValue(SubSeq(d, 1, Len(d) - 1)) + DigitValue(d[Len(d)])

\* Option<T>
None == [some |-> FALSE]
Some(v) == [some |-> TRUE, v |-> v]

-----------------------------------------------------------------------------
(* show_image_with_url: constants and pure steps *)

\* const MAX_IMAGE_BYTES: usize = 20 * 1024 * 1024
MAX_IMAGE_BYTES == 20 * 1024 * 1024

\* the longest digit string that is below 2^64 whatever its digits: usize is
\* 64 bits wide, and a longer string without leading zeros overflows it
UsizeDigits == 19

\* str::parse::<usize>().ok(): an optional '+', then one or more decimal
\* digits, no overflow.  The digit strings of the model have no leading zeros.
ParseUsize(s) ==
    LET d == IF s # <<>> /\ Head(s) = "+" THEN Tail(s) ELSE s
    IN  IF d = <<>> \/ \E i \in 1..Len(d) : ~IsDigit(d[i]) THEN None
        ELSE IF Len(d) > UsizeDigits THEN None
        ELSE Some(DecimalValue(d))

\* a header of a response: absent, present with bytes HeaderValue::to_str
\* refuses (not visible ASCII), or present with text
HAbsent == [kind |-> "absent"]
HOpaque == [kind |-> "opaque"]
HText(s) == [kind |-> "text", s |-> s]

\* headers().get(h).and_then(|v| v.to_str().ok())
HeaderStr(h) == IF h.kind = "text" THEN Some(h.s) ELSE None

\* StatusCode::is_success
IsSuccess(st) == 200 <= st /\ st <= 299

ImagePrefix == <<"i", "m", "a", "g", "e", "/">>

\* let ct = ... .unwrap_or("").to_string()
ContentType(r) ==
    LET v == HeaderStr(r.content_type) IN IF v.some THEN v.v ELSE <<>>

\* the acceptance test without its content-type half
RejectsStatusOnly(st, ct) == ~IsSuccess(st)

\* !status.is_success() || (!ct.is_empty() && !ct.starts_with("image/"))
Rejects(st, ct) ==
    ~IsSuccess(st) \/ (ct # <<>> /\ ~StartsWith(ct, ImagePrefix))

\* the Content-Length the code compares with the cap, if any
DeclaredLength(r) ==
    LET v == HeaderStr(r.content_length)
    IN  IF v.some THEN ParseUsize(v.v) ELSE None

\* the comparison with the cap, off by one
OverCapLoose(len) == len > MAX_IMAGE_BYTES + 1

\* len > MAX_IMAGE_BYTES
OverCap(len) == len > MAX_IMAGE_BYTES

MAX_ATTEMPTS == 3

\* the test of the attempt counter, with > for >=
ExhaustedLate(n) == n > MAX_ATTEMPTS

\* if attempts >= 3
Exhausted(n) == n >= MAX_ATTEMPTS

\* Duration::from_millis(200 * attempts as u64)
BACKOFF_MS == 200
Backoff(n) == BACKOFF_MS * n

\* image::load_from_memory(&bytes).is_ok(): decided by the bytes alone
Decodes(b) == b.img

-----------------------------------------------------------------------------
(* The environment of show_image_with_url *)

Statuses == {200, 201, 404, 500}
TransportErrors == {"connection refused", "operation timed out"}

CtTexts == { <<>>,
             ImagePrefix \o <<"p", "n", "g">>,
             <<"i", "m", "a", "g", "e">>,
             <<"t", "e", "x", "t", "/", "h", "t", "m", "l">> }
CtHeaders == {HAbsent, HOpaque} \cup {HText(s) : s \in CtTexts}

Nines == [i \in 1..(UsizeDigits + 1) |-> "9"]
ClTexts == { <<>>, <<"x">>, Nines, <<"+">> \o Digits(30000000) }
             \cup {Digits(n) : n \in {1, MAX_IMAGE_BYTES, MAX_IMAGE_BYTES + 1,
                                     30000000}}
ClHeaders == {HAbsent, HOpaque} \cup {HText(s) : s \in ClTexts}

Responses ==
    [status : Statuses, content_type : CtHeaders, content_length : ClHeaders]

\* a body: its length and whether the decoder accepts it (no empty image)
BodyLens == {0, 1, MAX_IMAGE_BYTES, MAX_IMAGE_BYTES + 1}
Bodies == {b \in [len : BodyLens, img : BOOLEAN] : b.len = 0 => ~b.img}

\* the value of the variable body
NotRead == [state |-> "not_read"]
ReadErr == [state |-> "err"]
ReadOk(b) == [state |-> "ok", b |-> b]
BodyResults == {ReadErr} \cup {ReadOk(b) : b \in Bodies}

\* the diagnostic file
NoFile == [exists |-> FALSE]
FileOf(b) == [exists |-> TRUE, b |-> b]
EmptyFile == FileOf([len |-> 0, img |-> FALSE])
OldDump == FileOf([len |-> 1, img |-> FALSE])

\* f.write_all(&buf), its result ignored: the whole buffer, or on an error a
\* shorter prefix of it
WriteAll(b, ok) ==
    IF ok THEN {FileOf(b)}
    ELSE {FileOf([len |-> l, img |-> FALSE]) : l \in {x \in BodyLens : x < b.len}}

Running == [class |-> "Running"]
Failed(class, info) == [class |-> class, info |-> info]
Succeeded == [class |-> "Ok"]

-----------------------------------------------------------------------------
(* reformat_search_tags (src/src/api/mod.rs 5-15) *)

RECURSIVE LeadingWhitespace(_)
\* the length of the longest prefix of s made of whitespace
LeadingWhitespace(s) ==
    IF s # <<>> /\ IsWhitespace(Head(s))
    THEN 1 + LeadingWhitespace(Tail(s)) ELSE 0

\* the normalization without the collapse of whitespace runs
CollapseNothing(s) == s

RECURSIVE CollapseSpaces(_)
\* Regex \s{2,} .replace_all(s, " "): every maximal run of two or more
\* whitespace characters becomes one space; a lone whitespace character stays
CollapseSpaces(s) ==
    IF s = <<>> THEN <<>>
    ELSE LET n == LeadingWhitespace(s)
         IN  IF n >= 2
             THEN <<" ">> \o CollapseSpaces(SubSeq(s, n + 1, Len(s)))
             ELSE <<Head(s)>> \o CollapseSpaces(Tail(s))

\* the class [,\s]
IsDelimiter(c) == c = "," \/ IsWhitespace(c)

Percent20 == <<"%", "2", "0">>

RECURSIVE ReplaceDelimiters(_)
\* Regex [,\s] .replace_all(s, "%20")
ReplaceDelimiters(s) ==
    IF s = <<>> THEN <<>>
    ELSE (IF IsDelimiter(Head(s)) THEN Percent20 ELSE <<Head(s)>>)
             \o ReplaceDelimiters(Tail(s))

reformat_search_tags(t) == ReplaceDelimiters(CollapseSpaces(Trim(t)))

-----------------------------------------------------------------------------
(* danbooru.rs: check_env_variables and evaluate_arguments *)

\* String::from("https://danbooru.donmai.us/posts.json?random=true")
PostsRandom ==
    <<"h", "t", "t", "p", "s", ":", "/", "/", "d", "a", "n", "b", "o", "o",
      "r", "u", ".", "d", "o", "n", "m", "a", "i", ".", "u", "s", "/", "p",
      "o", "s", "t", "s", ".", "j", "s", "o", "n", "?", "r", "a", "n", "d",
      "o", "m", "=", "t", "r", "u", "e">>

\* format!("&login={}&api_key={}", username, api_key)
LoginInfo(username, api_key) ==
    <<"&", "l", "o", "g", "i", "n", "=">> \o username
        \o <<"&", "a", "p", "i", "_", "k", "e", "y", "=">>
        \o api_key

RatingS == <<"%", "2", "0", "r", "a", "t", "i", "n", "g", ":", "s">>
RatingQ == <<"%", "2", "0", "r", "a", "t", "i", "n", "g", ":", "q">>
RatingE == <<"%", "2", "0", "r", "a", "t", "i", "n", "g", ":", "e">>
TagsParam == <<"&", "t", "a", "g", "s", "=">>

\* the variables DANBOORU_USERNAME and DANBOORU_API_KEY of an environment,
\* each set to a value or not set
NoEnv == [DANBOORU_USERNAME |-> None, DANBOORU_API_KEY |-> None]

\* check_env_variables: the pair (login_info.0, login_info.1) after the loop
\* over env::vars()
check_env_variables(e) == <<e.DANBOORU_USERNAME, e.DANBOORU_API_KEY>>

\* the command line without any flag
NoArgs == [username |-> None, key |-> None, safe |-> FALSE,
           questionable |-> FALSE, explicit |-> FALSE, tags |-> None]

\* evaluate_arguments with the environment asked before the command line
evaluate_arguments_env_first(a, e) ==
    LET login_info == check_env_variables(e)
        login == IF login_info[1].some /\ login_info[2].some
                 THEN LoginInfo(login_info[1].v, login_info[2].v)
                 ELSE IF a.username.some /\ a.key.some
                 THEN LoginInfo(a.username.v, a.key.v)
                 ELSE <<>>
        rated == reformat_search_tags(IF a.tags.some THEN a.tags.v ELSE <<>>)
                 \o (IF a.safe THEN RatingS
                     ELSE IF a.questionable THEN RatingQ
                     ELSE IF a.explicit THEN RatingE ELSE <<>>)
    IN  PostsRandom \o login \o TagsParam \o rated

\* evaluate_arguments(args), with the environment it reads as e
evaluate_arguments(a, e) ==
    LET login_info == check_env_variables(e)
        login == IF a.username.some
                 THEN (IF a.key.some THEN LoginInfo(a.username.v, a.key.v)
                       ELSE <<>>)
                 ELSE IF login_info[1].some /\ login_info[2].some
                 THEN LoginInfo(login_info[1].v, login_info[2].v)
                 ELSE <<>>
        rated == reformat_search_tags(IF a.tags.some THEN a.tags.v ELSE <<>>)
                 \o (IF a.safe THEN RatingS
                     ELSE IF a.questionable THEN RatingQ
                     ELSE IF a.explicit THEN RatingE ELSE <<>>)
    IN  PostsRandom \o login \o TagsParam \o rated

-----------------------------------------------------------------------------
(* JSON values and the provider responses *)

\* the member of a JSON object under a key (item.get(key)): absent, or a
\* string, a number or null
JAbsent == [j |-> "absent"]
JNull == [j |-> "null"]
JStr(x) == [j |-> "string", s |-> x]

\* a JSON number as written: an optional minus sign, the digits of the integer
\* part (no leading zero but for "0"), and the digits of a fraction, <<>> when
\* the number is written without one
JNumber(neg, digits, frac) ==
    [j |-> "number", n |-> [neg |-> neg, digits |-> digits, frac |-> frac]]

\* the JSON number written as the natural number n
JNum(n) == JNumber(FALSE, Digits(n), <<>>)

\* .and_then(Value::as_str)
AsStr(v) == IF v.j = "string" THEN Some(v.s) ELSE None

\* a response body: chars is its text up to and including the first character
\* that is not whitespace, doc is what serde_json::from_str::<Value> makes of
\* the whole text
InvalidJson == [kind |-> "invalid"]
JArray(items) == [kind |-> "array", items |-> items]
JObject(message) == [kind |-> "object", message |-> message]
JScalar == [kind |-> "scalar"]

\* the HTML test without trim_start
IsHtmlUntrimmed(t) == StartsWith(t.chars, <<"<">>)

\* text.trim_start().starts_with('<')
IsHtml(t) == StartsWith(TrimStart(t.chars), <<"<">>)

\* danbooru.rs: status != StatusCode::OK
DanStatusRejected(st) == st # 200

\* safebooru.rs: !status.is_success()
SafeStatusRejected(st) == ~IsSuccess(st)

\* serde_json::from_str::<FailureResponse>(&text).is_ok(): an object whose
\* message member is a string (the arrays of the model, empty or of objects,
\* do not deserialize as the struct)
ParsesAsEnvelope(doc) == doc.kind = "object" /\ doc.message.j = "string"

HttpsScheme == <<"h", "t", "t", "p", "s", ":">>

\* the extraction without the rewrite of a protocol-relative URL
FileUrlAsGiven(item) ==
    LET primary == AsStr(item.file_url)
        fallback == AsStr(item.large_file_url)
    IN  IF primary.some THEN primary.v
        ELSE IF fallback.some THEN fallback.v ELSE <<>>

\* danbooru.rs 200-208: file_url, else large_file_url, else ""; "//" made https
FileUrlOf(item) ==
    LET primary == AsStr(item.file_url)
        fallback == AsStr(item.large_file_url)
        raw == IF primary.some THEN primary.v
               ELSE IF fallback.some THEN fallback.v ELSE <<>>
    IN  IF StartsWith(raw, <<"/", "/">>) THEN HttpsScheme \o raw ELSE raw

\* danbooru.rs 196-231: one ImageData per item of the array
NormalizeDan(items) == [i \in 1..Len(items) |-> [file_url |-> FileUrlOf(items[i])]]

\* Unsigned integers are little-endian sequences of 16-bit limbs: a u32 has
\* two limbs, a u64 four.
Radix == 256 * 256

Zero(k) == [i \in 1..k |-> 0]

RECURSIVE MulAdd(_, _)
\* limbs * 10 + c, one limb longer than limbs: the last limb is the carry out
MulAdd(limbs, c) ==
    IF limbs = <<>> THEN <<c>>
    ELSE LET t == limbs[1] * 10 + c
         IN  <<t % Radix>> \o MulAdd(Tail(limbs), t \div Radix)

RECURSIVE ParseLimbs(_, _)
\* the digits d read into k limbs with checked_mul(10) and checked_add(digit):
\* None as soon as the value leaves the k limbs
ParseLimbs(d, k) ==
    IF d = <<>> THEN Some(Zero(k))
    ELSE LET front == ParseLimbs(SubSeq(d, 1, Len(d) - 1), k)
         IN  IF ~front.some THEN None
             ELSE LET r == MulAdd(front.v, DigitValue(d[Len(d)]))
                  IN  IF r[k + 1] # 0 THEN None ELSE Some(SubSeq(r, 1, k))

\* str::parse::<u32>().ok(): an optional '+', then one or more decimal digits,
\* no overflow of 32 bits
ParseU32(s) ==
    LET d == IF s # <<>> /\ Head(s) = "+" THEN Tail(s) ELSE s
    IN  IF d = <<>> \/ \E i \in 1..Len(d) : ~IsDigit(d[i]) THEN None
        ELSE ParseLimbs(d, 2)

\* serde_json Number::as_u64: Some for a number held as PosInt, which is an
\* integer literal without a minus sign that fits 64 bits; a literal with a
\* minus sign is held as NegInt or (for -0) as Float, a literal with a fraction
\* or beyond 64 bits as Float
as_u64(n) ==
    IF n.neg \/ n.frac # <<>> THEN None ELSE ParseLimbs(n.digits, 4)

\* u64 as u32: the low 32 bits
AsU32(limbs) == SubSeq(limbs, 1, 2)

\* parse_u32 (danbooru.rs 147-153 and safebooru.rs 127-133, the same code)
parse_u32(v) ==
    IF v.j = "number"
    THEN AsU32(IF as_u64(v.n).some THEN as_u64(v.n).v ELSE Zero(4))
    ELSE IF v.j = "string"
    THEN (IF ParseU32(v.s).some THEN ParseU32(v.s).v ELSE Zero(2))
    ELSE Zero(2)

\* parse_opt_u32 (danbooru.rs 155-161)
parse_opt_u32(v) ==
    IF v.j = "number"
    THEN (IF as_u64(v.n).some THEN Some(AsU32(as_u64(v.n).v)) ELSE None)
    ELSE IF v.j = "string" THEN ParseU32(v.s)
    ELSE None

RECURSIVE U32Digits(_)
\* Display for u32: the decimal text, by repeated division of the limbs by 10
U32Digits(limbs) ==
    LET t == (limbs[2] % 10) * Radix + limbs[1]
    IN  IF limbs[2] = 0 /\ limbs[1] < 10 THEN <<ToString(limbs[1])>>
        ELSE Append(U32Digits(<<t \div 10, limbs[2] \div 10>>),
                    ToString(t % 10))

\* safebooru.rs 160-195: one ImageData per item of the array
NormalizeSafe(items) ==
    [i \in 1..Len(items) |->
        [directory |-> (IF AsStr(items[i].directory).some
                        THEN AsStr(items[i].directory).v ELSE <<>>),
         image |-> (IF AsStr(items[i].image).some
                    THEN AsStr(items[i].image).v ELSE <<>>),
         id |-> parse_u32(items[i].id)]]

ApiOk(d, p) == [ok |-> TRUE, data |-> d, parsed |-> p]
ApiErr(e, p) == [ok |-> FALSE, err |-> e, parsed |-> p]

\* danbooru.rs fetch_api_data 172-241, from the status and the text on; parsed
\* lists the serde_json parses made: "envelope" (FailureResponse), "value"
DanFetchApiData(st, t) ==
    IF IsHtml(t)
    THEN ApiErr(Failed("UnexpectedContentKind", [status |-> st]), <<>>)
    ELSE IF DanStatusRejected(st)
    THEN IF ParsesAsEnvelope(t.doc)
         THEN ApiErr(Failed("ProviderRejected",
                            [status |-> st, message |-> t.doc.message.s]),
                     <<"envelope">>)
         ELSE ApiErr(Failed("ProviderRejected",
                            [status |-> st, message |-> <<"Unexpected response.">>]),
                     <<"envelope">>)
    ELSE IF t.doc.kind = "invalid"
    THEN ApiErr(Failed("MalformedResponse", <<"Failed to parse JSON">>), <<"value">>)
    ELSE IF t.doc.kind # "array"
    THEN ApiErr(Failed("MalformedResponse", <<"Unexpected JSON structure">>),
                <<"value">>)
    ELSE IF t.doc.items = <<>>
    THEN ApiErr(Failed("NoResults", [status |-> st]), <<"value">>)
    ELSE ApiOk(NormalizeDan(t.doc.items), <<"value">>)

\* safebooru.rs fetch_api_data 141-197
SafeFetchApiData(st, t) ==
    IF IsHtml(t)
    THEN ApiErr(Failed("UnexpectedContentKind", <<>>), <<>>)
    ELSE IF SafeStatusRejected(st)
    THEN ApiErr(Failed("ProviderRejected", [status |-> st]), <<>>)
    ELSE IF t.doc.kind = "invalid"
    THEN ApiErr(Failed("MalformedResponse", <<"Failed to parse JSON">>), <<"value">>)
    ELSE IF t.doc.kind # "array"
    THEN ApiErr(Failed("MalformedResponse", <<"Unexpected JSON structure">>),
                <<"value">>)
    ELSE ApiOk(NormalizeSafe(t.doc.items), <<"value">>)

\* the selection without its filter
ValidDataUnfiltered(d) == d

\* danbooru.rs 21-24: data.iter().filter(|image| !image.file_url.is_empty())
ValidData(d) == SelectSeq(d, LAMBDA image : image.file_url # <<>>)

SafeImages == <<"h", "t", "t", "p", "s", ":", "/", "/", "s", "a", "f", "e", "b",
                "o", "o", "r", "u", ".", "o", "r", "g", "/", "/", "i", "m", "a",
                "g", "e", "s", "/">>

\* safebooru.rs 42-47: format!("https://safebooru.org//images/{dir}/{img}?{id}")
SafeImageUrl(image) ==
    SafeImages \o image.directory \o <<"/">> \o image.image \o <<"?">>
        \o U32Digits(image.id)

-----------------------------------------------------------------------------
(* The providers' answers *)

\* bounds: the longest run of whitespace before the body's first character,
\* and the most records of a response
MaxLead == 1
MaxRecords == 2

SeqsUpTo(S, n) == UNION {[1..k -> S] : k \in 0..n}

Leads == SeqsUpTo({" ", "\n"}, MaxLead)

UrlA == HttpsScheme \o <<"/", "/", "a">>
RelB == <<"/", "/", "b">>

DanItems == [file_url : {JAbsent, JNull, JStr(<<>>), JStr(UrlA), JStr(RelB)},
             large_file_url : {JAbsent, JStr(<<>>), JStr(RelB)}]

SafeItems == [directory : {JAbsent, JStr(<<"d">>)},
              image : {JNum(1), JStr(<<"i">>)},
              id : {JAbsent, JStr(<<"4", "2">>)}]

Items(c) == IF c = "dan" THEN DanItems ELSE SafeItems

\* the documents that can follow a first character
DocsAfter(c, first) ==
    {InvalidJson} \cup
    (CASE first = <<"[">> -> {JArray(a) : a \in SeqsUpTo(Items(c), MaxRecords)}
       [] first = <<"{">> -> {JObject(m) : m \in {JAbsent, JNum(5), JStr(<<"m">>)}}
       [] first = <<"7">> -> {JScalar}
       [] OTHER -> {})

Firsts == {<<>>, <<"<">>, <<"[">>, <<"{">>, <<"7">>}

Texts(c) ==
    UNION {{[chars |-> lead \o first, doc |-> d] : d \in DocsAfter(c, first)} :
           lead \in Leads, first \in Firsts}

-----------------------------------------------------------------------------
(* run, show_random_image and the two grab_random_image *)

\* app.rs run 146-175: the subcommand chooses the path (no subcommand is the
\* Safebooru default)
Run ==
    /\ pc = "run"
    /\ pc' = IF cmd = "url" THEN "show_image_with_url" ELSE "grab_random_image"
    /\ UNCHANGED <<cmd, details, apiVars, image_url, fetchVars, outcome, stages,
                   tagVars, queryVars, coerceVars>>

\* fetch_api_data returns Err from build()?, send()? or text()?;
\* grab_random_image prints it and exits
FetchApiTransportErr ==
    /\ pc = "grab_random_image"
    /\ \E e \in TransportErrors :
         outcome' = Failed("QueryFailed", [text |-> e])
    /\ pc' = "exit"
    /\ UNCHANGED <<cmd, details, apiVars, image_url, fetchVars, stages,
                   tagVars, queryVars, coerceVars>>

\* fetch_api_data with a response: Err makes grab_random_image exit, Ok gives
\* it the normalized records
FetchApi ==
    /\ pc = "grab_random_image"
    /\ \E st \in Statuses, t \in Texts(cmd) :
         LET r == IF cmd = "dan" THEN DanFetchApiData(st, t)
                  ELSE SafeFetchApiData(st, t)
         IN  /\ status' = Some(st)
             /\ text' = Some(t)
             /\ parsed' = r.parsed
             /\ IF r.ok
                THEN /\ data' = r.data
                     /\ pc' = "select"
                     /\ stages' = Append(stages, "query_ok")
                     /\ UNCHANGED outcome
                ELSE /\ outcome' = r.err
                     /\ pc' = "exit"
                     /\ UNCHANGED <<data, stages>>
    /\ UNCHANGED <<cmd, details, image_url, fetchVars,
                   tagVars, queryVars, coerceVars>>

\* danbooru.rs 21-30: the first record with a non-empty file_url, or exit
DanSelect ==
    /\ pc = "select"
    /\ cmd = "dan"
    /\ LET valid_data == ValidData(data)
       IN  IF valid_data = <<>>
           THEN /\ outcome' = Failed("NoAccessibleResults", <<>>)
                /\ pc' = "exit"
                /\ UNCHANGED <<image_url, stages>>
           ELSE /\ image_url' = valid_data[1].file_url
                /\ pc' = IF details THEN "details" ELSE "return"
                /\ stages' = Append(stages, "selected")
                /\ UNCHANGED outcome
    /\ UNCHANGED <<cmd, details, apiVars, fetchVars,
                   tagVars, queryVars, coerceVars>>

\* safebooru.rs 31-47: exit on no record, else a record drawn uniformly
SafeSelect ==
    /\ pc = "select"
    /\ cmd = "safe"
    /\ IF data = <<>>
       THEN /\ outcome' = Failed("NoAccessibleResults", <<>>)
            /\ pc' = "exit"
            /\ UNCHANGED <<image_url, stages>>
       ELSE \E index \in 0..(Len(data) - 1) :
              /\ image_url' = SafeImageUrl(data[index + 1])
              /\ pc' = IF details THEN "details" ELSE "return"
              /\ stages' = Append(stages, "selected")
              /\ UNCHANGED outcome
    /\ UNCHANGED <<cmd, details, apiVars, fetchVars,
                   tagVars, queryVars, coerceVars>>

\* the details step without its std::process::exit(1)
PrintDetailsNoExit ==
    /\ pc = "details"
    /\ pc' = "return"
    /\ \E ok \in BOOLEAN :
         outcome' = IF ok THEN outcome ELSE Failed("PrintFailed", <<>>)
    /\ UNCHANGED <<cmd, details, apiVars, image_url, fetchVars, stages,
                   tagVars, queryVars, coerceVars>>

\* if args.details: print_image_details, exit on its Err
PrintDetails ==
    /\ pc = "details"
    /\ \E ok \in BOOLEAN :
         IF ok
         THEN /\ pc' = "return"
              /\ UNCHANGED outcome
         ELSE /\ pc' = "exit"
              /\ outcome' = Failed("PrintFailed", <<>>)
    /\ UNCHANGED <<cmd, details, apiVars, image_url, fetchVars, stages,
                   tagVars, queryVars, coerceVars>>

\* grab_random_image returns the URL, its locals are dropped, and
\* show_random_image calls show_image_with_url(image_url, config)
Return ==
    /\ pc = "return"
    /\ pc' = "show_image_with_url"
    /\ status' = None
    /\ text' = None
    /\ parsed' = <<>>
    /\ data' = <<>>
    /\ UNCHANGED <<cmd, details, image_url, fetchVars, outcome, stages,
                   tagVars, queryVars, coerceVars>>

-----------------------------------------------------------------------------
(* show_image_with_url (src/src/app.rs 195-301) *)

\* Client::builder()...build()?
BuildImageClient ==
    /\ pc = "show_image_with_url"
    /\ \E ok \in BOOLEAN :
         IF ok
         THEN /\ pc' = "loop"
              /\ attempts' = 0
              /\ last_err' = None
              /\ UNCHANGED outcome
         ELSE /\ pc' = "exit"
              /\ outcome' = Failed("ClientBuildFailed", <<>>)
              /\ UNCHANGED <<attempts, last_err>>
    /\ UNCHANGED <<cmd, details, apiVars, image_url, resp, body, bytes, gets,
                   sleeps, diagFile, dump, stages,
                   tagVars, queryVars, coerceVars>>

\* one pass of the loop whose send() returned Err(e)
AttemptSendErr ==
    /\ pc = "loop"
    /\ \E e \in TransportErrors :
         /\ attempts' = attempts + 1
         /\ gets' = gets + 1
         /\ stages' = Append(stages, "get")
         /\ resp' = None
         /\ body' = NotRead
         /\ last_err' = Some(e)
         /\ IF Exhausted(attempts')
            THEN /\ outcome' = Failed("TransportExhausted",
                                      [attempts |-> attempts', text |-> e])
                 /\ pc' = "exit"
                 /\ UNCHANGED sleeps
            ELSE /\ sleeps' = Append(sleeps, Backoff(attempts'))
                 /\ pc' = "loop"
                 /\ UNCHANGED outcome
    /\ UNCHANGED <<cmd, details, apiVars, image_url, bytes, diagFile, dump,
                   tagVars, queryVars, coerceVars>>

\* one pass whose response fails the status / content-type test: the body is
\* dumped when the file can be created and the body can be read, and the
\* function returns Err
AttemptRejected ==
    /\ pc = "loop"
    /\ \E r \in Responses :
         /\ Rejects(r.status, ContentType(r))
         /\ attempts' = attempts + 1
         /\ gets' = gets + 1
         /\ stages' = Append(stages, "get")
         /\ resp' = Some(r)
         /\ \E createOk \in BOOLEAN :
              IF ~createOk
              THEN /\ body' = NotRead
                   /\ dump' = "create_failed"
                   /\ UNCHANGED diagFile
              ELSE \E br \in BodyResults :
                     /\ body' = br
                     /\ IF br.state = "ok"
                        THEN \E wr \in BOOLEAN :
                               /\ diagFile' \in WriteAll(br.b, wr)
                               /\ dump' = IF wr THEN "written" ELSE "write_failed"
                        ELSE /\ diagFile' = EmptyFile
                             /\ dump' = "read_failed"
         /\ outcome' = Failed("RejectedContent",
                              [status |-> r.status, ct |-> ContentType(r),
                               attempts |-> attempts'])
         /\ pc' = "exit"
    /\ UNCHANGED <<cmd, details, apiVars, image_url, last_err, bytes, sleeps,
                   tagVars, queryVars, coerceVars>>

\* one pass whose accepted response declares a Content-Length over the cap
AttemptDeclaredTooLarge ==
    /\ pc = "loop"
    /\ \E r \in Responses :
         /\ ~Rejects(r.status, ContentType(r))
         /\ DeclaredLength(r).some
         /\ OverCap(DeclaredLength(r).v)
         /\ attempts' = attempts + 1
         /\ gets' = gets + 1
         /\ stages' = Append(stages, "get")
         /\ resp' = Some(r)
         /\ body' = NotRead
         /\ outcome' = Failed("TooLarge", [len |-> DeclaredLength(r).v,
                                           declared |-> TRUE])
         /\ pc' = "exit"
    /\ UNCHANGED <<cmd, details, apiVars, image_url, last_err, bytes, sleeps,
                   diagFile, dump,
                   tagVars, queryVars, coerceVars>>

\* one pass whose accepted response passes the Content-Length test: the body
\* is read (resp.bytes()?), measured, and the loop breaks with it
AttemptReadBody ==
    /\ pc = "loop"
    /\ \E r \in Responses :
         /\ ~Rejects(r.status, ContentType(r))
         /\ ~(DeclaredLength(r).some /\ OverCap(DeclaredLength(r).v))
         /\ attempts' = attempts + 1
         /\ gets' = gets + 1
         /\ stages' = Append(stages, "get")
         /\ resp' = Some(r)
         /\ \E br \in BodyResults :
              /\ body' = br
              /\ IF br.state = "err"
                 THEN /\ outcome' = Failed("BodyReadFailed",
                                           [attempts |-> attempts'])
                      /\ pc' = "exit"
                      /\ UNCHANGED bytes
                 ELSE IF OverCap(br.b.len)
                 THEN /\ outcome' = Failed("TooLarge", [len |-> br.b.len,
                                                        declared |-> FALSE])
                      /\ pc' = "exit"
                      /\ UNCHANGED bytes
                 ELSE /\ bytes' = Some(br.b)
                      /\ pc' = "decode"
                      /\ UNCHANGED outcome
    /\ UNCHANGED <<cmd, details, apiVars, image_url, last_err, sleeps,
                   diagFile, dump,
                   tagVars, queryVars, coerceVars>>

\* image::load_from_memory(&bytes): on Err the bytes are dumped (when the file
\* can be created) and the function returns Err
Decode ==
    /\ pc = "decode"
    /\ IF Decodes(bytes.v)
       THEN /\ pc' = "print"
            /\ stages' = Append(stages, "decoded")
            /\ UNCHANGED <<outcome, diagFile, dump>>
       ELSE /\ pc' = "exit"
            /\ outcome' = Failed("DecodeFailed", <<>>)
            /\ UNCHANGED stages
            /\ \E createOk \in BOOLEAN :
                 IF createOk
                 THEN \E wr \in BOOLEAN :
                        /\ diagFile' \in WriteAll(bytes.v, wr)
                        /\ dump' = IF wr THEN "written" ELSE "write_failed"
                 ELSE /\ dump' = "create_failed"
                      /\ UNCHANGED diagFile
    /\ UNCHANGED <<cmd, details, apiVars, image_url, attempts, last_err, resp,
                   body, bytes, gets, sleeps,
                   tagVars, queryVars, coerceVars>>

\* print(&image, &config)?; Ok(())
Render ==
    /\ pc = "print"
    /\ pc' = "exit"
    /\ \E ok \in BOOLEAN :
         /\ outcome' = IF ok THEN Succeeded ELSE Failed("RenderFailed", <<>>)
         /\ stages' = IF ok THEN Append(stages, "rendered") ELSE stages
    /\ UNCHANGED <<cmd, details, apiVars, image_url, fetchVars,
                   tagVars, queryVars, coerceVars>>

-----------------------------------------------------------------------------
(* The pipeline *)

Init ==
    /\ pc = "run"
    /\ cmd \in {"dan", "safe", "url"}
    /\ details \in (IF cmd = "url" THEN {FALSE} ELSE BOOLEAN)
    /\ status = None
    /\ text = None
    /\ parsed = <<>>
    /\ data = <<>>
    /\ image_url = (IF cmd = "url" THEN UrlA ELSE <<>>)
    /\ attempts = 0
    /\ last_err = None
    /\ resp = None
    /\ body = NotRead
    /\ bytes = None
    /\ gets = 0
    /\ sleeps = <<>>
    /\ diagFile \in {NoFile, OldDump}
    /\ dump = "none"
    /\ outcome = Running
    /\ stages = <<>>
    /\ tags = <<>>
    /\ search_tags = None
    /\ renormalized = None
    /\ args = NoArgs
    /\ env = NoEnv
    /\ request_url = None
    /\ variants = <<>>
    /\ ids = <<>>
    /\ pixiv_ids = <<>>

Next ==
    \/ Run
    \/ FetchApiTransportErr
    \/ FetchApi
    \/ DanSelect
    \/ SafeSelect
    \/ PrintDetails
    \/ Return
    \/ BuildImageClient
    \/ AttemptSendErr
    \/ AttemptRejected
    \/ AttemptDeclaredTooLarge
    \/ AttemptReadBody
    \/ Decode
    \/ Render

Spec == Init /\ [][Next]_vars

-----------------------------------------------------------------------------
(* reformat_search_tags applied to a tag string, then to its own result *)

\* bound: the longest tag string drawn from TagChars
MaxTagLen == 4

TagChars == {"a", "b", " ", "\t", ","}

CatGirl == <<"c", "a", "t", " ", "g", "i", "r", "l", ",", " ",
             "b", "l", "u", "e", " ", "h", "a", "i", "r">>

TagInputs == SeqsUpTo(TagChars, MaxTagLen) \cup {CatGirl}

InitTags ==
    /\ pc = "tags"
    /\ cmd = "dan"
    /\ details = FALSE
    /\ status = None
    /\ text = None
    /\ parsed = <<>>
    /\ data = <<>>
    /\ image_url = <<>>
    /\ attempts = 0
    /\ last_err = None
    /\ resp = None
    /\ body = NotRead
    /\ bytes = None
    /\ gets = 0
    /\ sleeps = <<>>
    /\ diagFile = NoFile
    /\ dump = "none"
    /\ outcome = Running
    /\ stages = <<>>
    /\ tags \in TagInputs
    /\ search_tags = None
    /\ renormalized = None
    /\ args = NoArgs
    /\ env = NoEnv
    /\ request_url = None
    /\ variants = <<>>
    /\ ids = <<>>
    /\ pixiv_ids = <<>>

\* evaluate_arguments: let mut tags = reformat_search_tags(search_tags)
Reformat ==
    /\ pc = "tags"
    /\ search_tags' = Some(reformat_search_tags(tags))
    /\ pc' = "tags_done"
    /\ UNCHANGED <<cmd, details, apiVars, image_url, fetchVars, outcome, stages,
                   tags, renormalized, queryVars, coerceVars>>

\* the result is given to reformat_search_tags as a tag string again
ReformatAgain ==
    /\ pc = "tags_done"
    /\ renormalized' = Some(reformat_search_tags(search_tags.v))
    /\ pc' = "tags_again"
    /\ UNCHANGED <<cmd, details, apiVars, image_url, fetchVars, outcome, stages,
                   tags, search_tags, queryVars, coerceVars>>

NextTags == Reformat \/ ReformatAgain

SpecTags == InitTags /\ [][NextTags]_vars

-----------------------------------------------------------------------------
(* danbooru evaluate_arguments applied to a command line and an environment *)

UserU == <<"u">>
KeyK == <<"k">>
UserE == <<"e">>
KeyF == <<"f">>

\* app.rs 84-94: username requires key and key requires username, so the
\* parser gives both or neither
ExplicitPairs ==
    {[username |-> None, key |-> None]}
    \cup {[username |-> Some(u), key |-> Some(k)] :
             u \in {UserU, <<>>}, k \in {KeyK}}

\* app.rs 67-76: safe, questionable and explicit conflict with each other
Ratings ==
    {r \in [safe : BOOLEAN, questionable : BOOLEAN, explicit : BOOLEAN] :
        ~(r.safe /\ r.questionable) /\ ~(r.safe /\ r.explicit)
        /\ ~(r.questionable /\ r.explicit)}

QueryTags == {None, Some(<<"a">>), Some(<<"a", " ", "b">>)}

DanbooruArgs ==
    {[username |-> p.username, key |-> p.key, safe |-> r.safe,
      questionable |-> r.questionable, explicit |-> r.explicit, tags |-> t] :
        p \in ExplicitPairs, r \in Ratings, t \in QueryTags}

Environments == [DANBOORU_USERNAME : {None, Some(UserE)},
                 DANBOORU_API_KEY : {None, Some(KeyF), Some(KeyK)}]

InitQuery ==
    /\ pc = "evaluate_arguments"
    /\ cmd = "dan"
    /\ details = FALSE
    /\ status = None
    /\ text = None
    /\ parsed = <<>>
    /\ data = <<>>
    /\ image_url = <<>>
    /\ attempts = 0
    /\ last_err = None
    /\ resp = None
    /\ body = NotRead
    /\ bytes = None
    /\ gets = 0
    /\ sleeps = <<>>
    /\ diagFile = NoFile
    /\ dump = "none"
    /\ outcome = Running
    /\ stages = <<>>
    /\ tags = <<>>
    /\ search_tags = None
    /\ renormalized = None
    /\ args \in DanbooruArgs
    /\ env \in Environments
    /\ request_url = None
    /\ variants = <<>>
    /\ ids = <<>>
    /\ pixiv_ids = <<>>

\* danbooru.rs 12: let request_url = evaluate_arguments(&args)
EvaluateArguments ==
    /\ pc = "evaluate_arguments"
    /\ request_url' = Some(evaluate_arguments(args, env))
    /\ pc' = "fetch_api_data"
    /\ UNCHANGED <<cmd, details, apiVars, image_url, fetchVars, outcome, stages,
                   tagVars, args, env, coerceVars>>

NextQuery == EvaluateArguments

SpecQuery == InitQuery /\ [][NextQuery]_vars

-----------------------------------------------------------------------------
(* parse_u32 and parse_opt_u32 applied to a field in its two encodings *)

\* integer parts: small values, the values around 2^16, 2^31, 2^32 and 2^64
IntegerDigits ==
    {<<"0">>,
     <<"7">>,
     <<"4", "2">>,
     <<"6", "5", "5", "3", "5">>,
     <<"6", "5", "5", "3", "6">>,
     <<"2", "1", "4", "7", "4", "8", "3", "6", "4", "8">>,
     <<"4", "2", "9", "4", "9", "6", "7", "2", "9", "5">>,
     <<"4", "2", "9", "4", "9", "6", "7", "2", "9", "6">>,
     <<"4", "2", "9", "4", "9", "6", "7", "2", "9", "7">>,
     <<"9", "9", "9", "9", "9", "9", "9", "9", "9", "9">>,
     <<"1", "8", "4", "4", "6", "7", "4", "4", "0", "7", "3", "7", "0", "9", "5", "5", "1", "6", "1", "5">>,
     <<"1", "8", "4", "4", "6", "7", "4", "4", "0", "7", "3", "7", "0", "9", "5", "5", "1", "6", "1", "6">>}

\* the integers written as JSON numbers; JSON has no -0 integer
IntegerNumbers ==
    {JNumber(neg, d, <<>>) : neg \in BOOLEAN, d \in IntegerDigits}
    \ {JNumber(TRUE, <<"0">>, <<>>)}

\* the text of an integer number, as a JSON string holds it
NumberText(n) == (IF n.neg THEN <<"-">> ELSE <<>>) \o n.digits

\* members that hold no integer: absent, null, a number with a fraction, and
\* strings that are empty, not digits, or a number with a fraction
OtherMembers ==
    {JAbsent, JNull, JNumber(FALSE, <<"1">>, <<"5">>),
     JNumber(TRUE, <<"1">>, <<"5">>), JStr(<<>>), JStr(<<"a">>),
     JStr(<<"1", ".", "5">>), JStr(<<"4", "2", "x">>), JStr(<<" ", "7">>)}

\* the two variants of one field: the same integer as a number and as a
\* string, or twice a member that holds no integer
Variants ==
    {<<m, JStr(NumberText(m.n))>> : m \in IntegerNumbers}
    \cup {<<m, m>> : m \in OtherMembers}

InitCoerce ==
    /\ pc = "normalize"
    /\ cmd = "dan"
    /\ details = FALSE
    /\ status = None
    /\ text = None
    /\ parsed = <<>>
    /\ data = <<>>
    /\ image_url = <<>>
    /\ attempts = 0
    /\ last_err = None
    /\ resp = None
    /\ body = NotRead
    /\ bytes = None
    /\ gets = 0
    /\ sleeps = <<>>
    /\ diagFile = NoFile
    /\ dump = "none"
    /\ outcome = Running
    /\ stages = <<>>
    /\ tags = <<>>
    /\ search_tags = None
    /\ renormalized = None
    /\ args = NoArgs
    /\ env = NoEnv
    /\ request_url = None
    /\ variants \in Variants
    /\ ids = <<None, None>>
    /\ pixiv_ids = <<None, None>>

\* danbooru.rs 216, safebooru.rs 163: parse_u32(item.get(..))
CoerceU32 ==
    /\ pc = "normalize"
    /\ \E i \in 1..2 :
         /\ ~ids[i].some
         /\ ids' = [ids EXCEPT ![i] = Some(parse_u32(variants[i]))]
    /\ UNCHANGED <<pc, cmd, details, apiVars, image_url, fetchVars, outcome,
                   stages, tagVars, queryVars, variants, pixiv_ids>>

\* danbooru.rs 199: parse_opt_u32(item.get("pixiv_id"))
CoerceOptU32 ==
    /\ pc = "normalize"
    /\ \E i \in 1..2 :
         /\ ~pixiv_ids[i].some
         /\ pixiv_ids' = [pixiv_ids EXCEPT ![i] = Some(parse_opt_u32(variants[i]))]
    /\ UNCHANGED <<pc, cmd, details, apiVars, image_url, fetchVars, outcome,
                   stages, tagVars, queryVars, variants, ids>>

NextCoerce == CoerceU32 \/ CoerceOptU32

SpecCoerce == InitCoerce /\ [][NextCoerce]_vars

-----------------------------------------------------------------------------
(* The properties *)

Cap == 20 * 1024 * 1024

AllDigits(x) == x # <<>> /\ \A i \in 1..Len(x) : IsDigit(x[i])

\* a response whose status is a success and whose content type is absent,
\* empty or begins with "image/"
Acceptable(r) ==
    /\ r.status \in 200..299
    /\ \/ r.content_type.kind # "text"
       \/ r.content_type.s = <<>>
       \/ /\ Len(r.content_type.s) >= 6
          /\ \A i \in 1..6 : r.content_type.s[i] = ImagePrefix[i]

\* a Content-Length header that is a decimal number over the cap (a number of
\* more than 8 digits is over the 8-digit cap)
DeclaresOverCap(r) ==
    /\ r.content_length.kind = "text"
    /\ AllDigits(r.content_length.s)
    /\ \/ Len(r.content_length.s) > 8
       \/ DecimalValue(r.content_length.s) > Cap

\* C1: when every GET fails in send(), three GETs are issued and no fourth,
\* a sleep of 200 ms x n follows attempt n for n = 1, 2 and none follows
\* attempt 3, and the fetch ends as "failed after 3 attempts" with the text
\* of the last error.
C1_TransportRetry ==
    /\ gets <= 3
    /\ (pc = "loop" /\ resp = None) =>
           /\ attempts < 3
           /\ gets = attempts
           /\ sleeps = [i \in 1..attempts |-> 200 * i]
    /\ (gets = 3 /\ resp = None) =>
           /\ pc = "exit"
           /\ outcome.class = "TransportExhausted"
    /\ outcome.class = "TransportExhausted" =>
           /\ gets = 3
           /\ resp = None
           /\ sleeps = <<200, 400>>
           /\ outcome.info.attempts = 3
           /\ last_err.some
           /\ outcome.info.text = last_err.v

C1_Witness ==
    /\ outcome.class = "TransportExhausted"
    /\ gets = 3
    /\ sleeps = <<200, 400>>

\* C2: a response that declares a Content-Length over the cap, whatever its
\* status and content type, makes the fetch fail with no byte of its body
\* read.
C2_DeclaredNeverRead ==
    (resp.some /\ DeclaresOverCap(resp.v)) =>
        /\ pc = "exit"
        /\ outcome.class \notin {"Running", "Ok"}
        /\ ~(body.state = "ok" /\ body.b.len > 0)

\* C3: the bytes the loop breaks with are at most 20 MiB long, and an
\* accepted response whose body, once read, is longer than that ends the
\* fetch as TooLarge, whatever its Content-Length header says.
C3_BytesWithinCap ==
    /\ bytes.some => bytes.v.len <= Cap
    /\ pc \in {"decode", "print"} => bytes.some
    /\ outcome.class \in {"Ok", "DecodeFailed", "RenderFailed"} => bytes.some
    /\ (resp.some /\ Acceptable(resp.v) /\ body.state = "ok" /\ body.b.len > Cap) =>
           /\ pc = "exit"
           /\ outcome.class = "TooLarge"
           /\ outcome.info.len = body.b.len
           /\ ~bytes.some

C3_Witness ==
    /\ outcome.class = "TooLarge"
    /\ body.state = "ok"
    /\ body.b.len = Cap + 1
    /\ resp.v.content_length = HText(<<"1">>)

FirstIsLt(t) ==
    \E i \in 1..Len(t.chars) :
        /\ t.chars[i] = "<"
        /\ \A j \in 1..(i - 1) : t.chars[j] \in {" ", "\t", "\n"}

\* C5: for both providers, a body whose first non-whitespace character is
\* '<' is handed to no JSON parser, whatever the status, and the call fails
\* with the HTML / unexpected-response error.
C5_HtmlNeverParsed ==
    (text.some /\ FirstIsLt(text.v)) =>
        /\ parsed = <<>>
        /\ pc = "exit"
        /\ outcome.class = "UnexpectedContentKind"

C5_Witness ==
    /\ cmd = "safe"
    /\ text.some
    /\ text.v.chars = <<"\n", "<">>
    /\ status = Some(200)
    /\ outcome.class = "UnexpectedContentKind"

\* the least index of a record with a non-empty file_url
FirstWithUrl(d) ==
    CHOOSE i \in 1..Len(d) :
        /\ d[i].file_url # <<>>
        /\ \A j \in 1..(i - 1) : d[j].file_url = <<>>

\* C6: Provider A's selection returns the file_url of the lowest-index record
\* whose file_url is non-empty, never an empty URL, and fails with
\* NoAccessibleResults exactly when no record has one.
C6_FirstAccessible ==
    (cmd = "dan" /\ data # <<>> /\ pc # "select") =>
        IF \E i \in 1..Len(data) : data[i].file_url # <<>>
        THEN /\ image_url = data[FirstWithUrl(data)].file_url
             /\ image_url # <<>>
             /\ outcome.class # "NoAccessibleResults"
        ELSE /\ outcome.class = "NoAccessibleResults"
             /\ pc = "exit"
             /\ image_url = <<>>

C6_Witness ==
    /\ cmd = "dan"
    /\ pc = "return"
    /\ Len(data) = 2
    /\ data[1].file_url = <<>>
    /\ image_url = data[2].file_url
    /\ image_url # <<>>

RECURSIVE SplitOn(_, _)
\* the non-empty fields of x between the characters of seps
SplitOn(x, seps) ==
    IF x = <<>> THEN <<>>
    ELSE IF Head(x) \in seps THEN SplitOn(Tail(x), seps)
    ELSE LET rest == SplitOn(Tail(x), seps)
         IN  IF Len(x) > 1 /\ x[2] \notin seps
             THEN <<(<<Head(x)>> \o Head(rest))>> \o Tail(rest)
             ELSE <<(<<Head(x)>>)>> \o rest

RECURSIVE JoinWith(_, _)
JoinWith(fields, sep) ==
    IF fields = <<>> THEN <<>>
    ELSE IF Len(fields) = 1 THEN Head(fields)
    ELSE Head(fields) \o sep \o JoinWith(Tail(fields), sep)

SpaceChars == {" ", "\t", "\n"}
SeparatorChars == SpaceChars \cup {","}
IsSeparatorChar(c) == c \in SeparatorChars

\* C7: reformat_search_tags is idempotent, and in a tag string without commas
\* the tags, however much whitespace lies between and around them, come out
\* joined by exactly one %20 each.
C7_Idempotent ==
    /\ renormalized.some => renormalized.v = search_tags.v
    /\ (search_tags.some /\ \A i \in 1..Len(tags) : tags[i] # ",") =>
           search_tags.v = JoinWith(SplitOn(tags, SpaceChars), <<"%", "2", "0">>)

C7_Witness ==
    /\ tags = <<"a", " ", "\t", "b">>
    /\ search_tags = Some(<<"a", "%", "2", "0", "b">>)
    /\ renormalized = search_tags

\* tags separated by one space, one comma, or a comma followed by a space,
\* with nothing before the first and after the last tag
WellSeparated(x) ==
    /\ x # <<>>
    /\ ~IsSeparatorChar(x[1])
    /\ ~IsSeparatorChar(x[Len(x)])
    /\ \A i \in 1..Len(x) :
          /\ x[i] = "," => (~IsSeparatorChar(x[i - 1])
                            /\ (x[i + 1] = " " \/ ~IsSeparatorChar(x[i + 1])))
          /\ x[i] = " " => (~IsSeparatorChar(x[i + 1])
                            /\ (x[i - 1] = "," \/ ~IsSeparatorChar(x[i - 1])))
          /\ x[i] \notin {"\t", "\n"}

CatGirlNormalized == <<"c", "a", "t", "%", "2", "0", "g", "i", "r", "l", "%", "2", "0",
                       "b", "l", "u", "e", "%", "2", "0", "h", "a", "i", "r">>

\* C8: tag strings whose tags are separated by a space, a comma or a comma
\* and a space normalize to the tags joined by exactly one %20 each;
\* "cat girl, blue hair" gives cat%20girl%20blue%20hair.
C8_SeparatorsInterchangeable ==
    /\ (search_tags.some /\ WellSeparated(tags)) =>
           search_tags.v = JoinWith(SplitOn(tags, SeparatorChars), <<"%", "2", "0">>)
    /\ (search_tags.some /\ tags = CatGirl) => search_tags.v = CatGirlNormalized

\* C9: for Provider A, a body that does not begin with '<' is rejected with
\* the status (and the envelope's message, or "Unexpected response.") exactly
\* when the status is not a success, and every 2xx status goes on to the
\* parse of the JSON array.
C9_RejectedIffNotSuccess ==
    (cmd = "dan" /\ status.some /\ text.some /\ ~FirstIsLt(text.v)) =>
        IF status.v \in 200..299
        THEN /\ outcome.class # "ProviderRejected"
             /\ parsed = <<"value">>
        ELSE /\ outcome.class = "ProviderRejected"
             /\ pc = "exit"
             /\ outcome.info.status = status.v
             /\ outcome.info.message =
                    IF text.v.doc.kind = "object" /\ text.v.doc.message.j = "string"
                    THEN text.v.doc.message.s
                    ELSE <<"Unexpected response.">>

QueryFailures == {"QueryFailed", "UnexpectedContentKind", "ProviderRejected",
                  "MalformedResponse", "NoResults", "NoAccessibleResults",
                  "PrintFailed"}

FetchStages == {"get", "decoded", "rendered"}

\* C10: for a provider subcommand, an image GET (and decode, render) comes
\* only after the query succeeded and the selection chose a URL from at
\* least one record; a failure of the query, the validation, the
\* normalization (an empty array included) or the selection ends the run
\* there, with no GET, decode or render before or after it.
C10_ShortCircuit ==
    /\ cmd # "url" =>
          \A i \in 1..Len(stages) :
              /\ stages[i] \in FetchStages =>
                    \E j \in 1..i, k \in 1..i :
                        j < k /\ k < i /\ stages[j] = "query_ok" /\ stages[k] = "selected"
              /\ stages[i] = "selected" => \E j \in 1..(i - 1) : stages[j] = "query_ok"
    /\ pc \in {"details", "return"} =>
          /\ Len(data) >= 1
          /\ image_url # <<>>
          /\ stages = <<"query_ok", "selected">>
    /\ (text.some /\ text.v.doc.kind = "array" /\ text.v.doc.items = <<>>) =>
          /\ pc \in {"select", "exit"}
          /\ pc = "exit" => outcome.class \in {"NoResults", "NoAccessibleResults",
                                               "UnexpectedContentKind",
                                               "ProviderRejected"}
    /\ pc = "select" => (gets = 0 /\ image_url = <<>>)
    /\ outcome.class \in QueryFailures =>
          /\ pc = "exit"
          /\ gets = 0
          /\ ~bytes.some
          /\ \A i \in 1..Len(stages) : stages[i] \notin FetchStages
    /\ pc = "exit" => ~ENABLED Next

C10_Witness ==
    /\ cmd = "safe"
    /\ status = Some(200)
    /\ text.some
    /\ text.v.doc = JArray(<<>>)
    /\ outcome.class = "NoAccessibleResults"
    /\ gets = 0
    /\ stages = <<"query_ok">>

\* x occurs in s as a contiguous segment
Contains(s, x) ==
    \E i \in 0..(Len(s) - Len(x)) : SubSeq(s, i + 1, i + Len(x)) = x

RandomTrue == <<"r", "a", "n", "d", "o", "m", "=", "t", "r", "u", "e">>
LoginKey == <<"l", "o", "g", "i", "n", "=">>
ApiKeyKey == <<"a", "p", "i", "_", "k", "e", "y", "=">>
TagsKey == <<"&", "t", "a", "g", "s", "=">>

\* the segment &login=<user>&api_key=<key>
Credentials(user, key) == <<"&">> \o LoginKey \o user \o <<"&">> \o ApiKeyKey \o key

\* url is <head>random=true<segment>&tags=<rest> for some head and rest
Between(url, segment) ==
    \E i \in Len(RandomTrue)..Len(url) :
        /\ SubSeq(url, i - Len(RandomTrue) + 1, i) = RandomTrue
        /\ StartsWith(SubSeq(url, i + 1, Len(url)), segment \o TagsKey)

ExplicitPair == args.username.some /\ args.key.some
EnvPair == env.DANBOORU_USERNAME.some /\ env.DANBOORU_API_KEY.some

\* C11: the query URL of Provider A holds &login=<user>&api_key=<key> between
\* random=true and &tags= exactly when a complete pair comes from the command
\* line or from the environment; the pair of the command line is the one used
\* when both give one; without a complete pair the URL holds no credentials.
C11_Credentials ==
    request_url.some =>
        IF ExplicitPair
        THEN Between(request_url.v, Credentials(args.username.v, args.key.v))
        ELSE IF EnvPair
        THEN Between(request_url.v,
                     Credentials(env.DANBOORU_USERNAME.v, env.DANBOORU_API_KEY.v))
        ELSE /\ Between(request_url.v, <<>>)
             /\ ~Contains(request_url.v, LoginKey)
             /\ ~Contains(request_url.v, ApiKeyKey)

\* both sources gave a complete pair, with different values, and the URL was
\* built with the pair of the command line
C11_Witness ==
    /\ request_url.some
    /\ ExplicitPair /\ EnvPair
    /\ args.username.v = UserU /\ args.key.v = KeyK
    /\ env.DANBOORU_USERNAME.v = UserE /\ env.DANBOORU_API_KEY.v = KeyF
    /\ Contains(request_url.v, Credentials(UserU, KeyK))
    /\ ~Contains(request_url.v, Credentials(UserE, KeyF))

ProtocolRelative(u) == Len(u) >= 2 /\ u[1] = "/" /\ u[2] = "/"

\* the member is there as a string
Present(member) == member.j = "string"

\* what the claim gives for an item: the primary, else the alternate, made
\* absolute when protocol-relative; nothing when neither is there
ResolvedUrl(item) ==
    LET chosen == IF Present(item.file_url) THEN item.file_url.s
                  ELSE IF Present(item.large_file_url)
                  THEN item.large_file_url.s ELSE <<>>
    IN  IF ProtocolRelative(chosen)
        THEN <<"h", "t", "t", "p", "s", ":">> \o chosen ELSE chosen

\* C12: every record of Provider A takes its file_url from "file_url", or
\* from "large_file_url" when the primary is absent, with "https:" put before
\* a value starting with "//"; so no record that reaches selection, and no
\* URL selected, begins with "//".
C12_FileUrlResolved ==
    (cmd = "dan" /\ text.some /\ data # <<>>) =>
        /\ Len(data) = Len(text.v.doc.items)
        /\ \A i \in 1..Len(data) :
              /\ data[i].file_url = ResolvedUrl(text.v.doc.items[i])
              /\ ~ProtocolRelative(data[i].file_url)
        /\ ~ProtocolRelative(image_url)

\* a record without "file_url" whose "large_file_url" is //b was normalized
\* to https://b, and that URL was selected
C12_Witness ==
    /\ cmd = "dan"
    /\ pc = "return"
    /\ text.some
    /\ Len(data) = 2
    /\ text.v.doc.items[1].file_url = JAbsent
    /\ text.v.doc.items[1].large_file_url = JStr(<<"/", "/", "b">>)
    /\ text.v.doc.items[2].file_url = JStr(<<"/", "/", "b">>)
    /\ data[1].file_url = <<"h", "t", "t", "p", "s", ":", "/", "/", "b">>
    /\ data[2].file_url = data[1].file_url
    /\ image_url = data[1].file_url

\* C13: a failure while the body of an accepted response is read is retried
\* like any transport failure: on attempt 1 or 2 the loop sleeps 200 ms x n
\* and goes on to a further attempt, and a fetch that fails for a transport
\* reason has made 3 attempts.
C13_BodyReadRetried ==
    /\ (resp.some /\ Acceptable(resp.v) /\ body.state = "err" /\ attempts < 3) =>
           /\ pc = "loop"
           /\ outcome = Running
           /\ sleeps = [i \in 1..attempts |-> 200 * i]
    /\ outcome.class \in {"TransportExhausted", "BodyReadFailed"} => gets = 3

MaxU32Text == <<"4", "2", "9", "4", "9", "6", "7", "2", "9", "5">>

\* a <= b for digit strings of one length
DigitsLeq(a, b) ==
    \/ a = b
    \/ \E i \in 1..Len(a) :
         /\ SubSeq(a, 1, i - 1) = SubSeq(b, 1, i - 1)
         /\ DigitValue(a[i]) < DigitValue(b[i])

\* the digit string, without leading zeros, denotes a value below 2^32
FitsU32(d) ==
    \/ Len(d) < Len(MaxU32Text)
    \/ Len(d) = Len(MaxU32Text) /\ DigitsLeq(d, MaxU32Text)

\* the member holds an integer that an unsigned 32-bit integer can hold
RepresentableU32(m) ==
    \/ m.j = "number" /\ ~m.n.neg /\ m.n.frac = <<>> /\ FitsU32(m.n.digits)
    \/ m.j = "string" /\ AllDigits(m.s) /\ FitsU32(m.s)

\* the second member is the numeric string of the integer number in the first
SameInteger(a, b) ==
    /\ a.j = "number" /\ a.n.frac = <<>>
    /\ b.j = "string"
    /\ b.s = (IF a.n.neg THEN <<"-">> ELSE <<>>) \o a.n.digits

Coerced ==
    /\ Len(variants) = 2
    /\ \A i \in 1..2 : ids[i].some /\ pixiv_ids[i].some

\* C14: the number v and the numeric string of v coerce to the same result,
\* for parse_u32 and for parse_opt_u32, and a member that is absent, not
\* numeric or not representable in 32 bits unsigned gives 0 (None for the
\* optional field), never a wrapped or truncated value.
C14_EncodingIndependent ==
    Coerced =>
        /\ SameInteger(variants[1], variants[2]) =>
               /\ ids[1] = ids[2]
               /\ pixiv_ids[1] = pixiv_ids[2]
        /\ \A i \in 1..2 :
               ~RepresentableU32(variants[i]) =>
                   /\ ids[i].v = <<0, 0>>
                   /\ pixiv_ids[i].v = [some |-> FALSE]

=============================================================================
